---- MODULE Spec2Model ----
(***************************************************************************)
(* Model of stereo_rerender.py: the depth decode of one pixel, the         *)
(* start-up re-basing of the transformation list, and the per-frame loop   *)
(* of the script (start-up checks, background accumulation, view synthesis *)
(* and frame assembly).                                                    *)
(***************************************************************************)
EXTENDS Integers, Sequences, FiniteSets, TLC

VARIABLES
    \* ---- depth decode of one pixel (lines 238-243)
    rgb,                    \* the pixel <<r, g, b>> of the RGB frame
    MODEL_maxOUTPUT_depth,  \* args.max_depth
    depth_unit,             \* the four bytes of the uint32, index 1 = byte 0
    depth,                  \* the decoded depth as a fraction [num, den] of limb pairs
    dpc,                    \* position in the decode
    \* ---- transformation re-basing (lines 142-153)
    transformations,        \* the list as it is now
    loaded_transformations, \* the list as json.load returned it
    transformation_lock_frame,
    ref_frame_inv_trans,
    rb_i,                   \* the enumerate() index of the re-basing loop
    rpc,                    \* position in the re-basing
    \* ---- the script from start-up to release (lines 116-408)
    args,                   \* the parsed arguments (args.vr180 is assigned at line 164)
    raw_video,              \* the depth video: its frame size, frame count, frames read
    pc,                     \* position in the script
    error,                  \* the exception that ended the run, or None
    frame_n,
    frame_width, frame_height,
    out_width, out_height,
    render_fov,
    render_cam_matrix,      \* the render camera: the resolution it was computed for
    out_size,
    out,                    \* the output writer: size opened with, frames handed to it
    infill_mask_video,      \* the mask writer, or None
    bg_points,              \* None (undefined) or [n, shift, mem]
    bg_point_colors,        \* None (undefined) or [n]
    bg_cloud,               \* None (undefined) or [n, shift, mem]
    new_points,             \* number of candidate vertices of the last update
    decimated,              \* frame numbers on which the down-sample was called
    left_shift, right_shift,
    mesh,                   \* the scene the renders use: [shift, mem]
    renders,                \* this frame's render requests, in order
    out_image,              \* size of the assembled output frame, or None
    out_mask_image          \* size of the assembled mask frame, or None

decodeVars == <<rgb, MODEL_maxOUTPUT_depth, depth_unit, depth, dpc>>
rebaseVars == <<transformations, loaded_transformations, transformation_lock_frame,
                ref_frame_inv_trans, rb_i, rpc>>
setupVars == <<frame_width, frame_height, out_width, out_height, render_fov,
               render_cam_matrix, out_size, left_shift, right_shift>>
bgVars == <<bg_points, bg_point_colors, bg_cloud, new_points, decimated>>
viewVars == <<mesh, renders, out_image, out_mask_image>>
mainVars == <<args, raw_video, pc, error, frame_n, setupVars, out, infill_mask_video,
              bgVars, viewVars>>
vars == <<decodeVars, rebaseVars, mainVars>>

\* Python's None, for a name that holds a string, an object, or a number or size
None == "None"

NoObject == [none |-> TRUE]

NoValue == <<>>

(***************************************************************************)
(* Depth decode.  A uint32 does not fit TLC's integers, so 32-bit values   *)
(* are pairs <<high 16 bits, low 16 bits>>.                                *)
(***************************************************************************)
Limb == 65536

\* the carry of the low limb moved into the high limb
Norm(p) == <<p[1] + (p[2] \div Limb), p[2] % Limb>>

\* p <= q for normalised limb pairs
LimbLeq(p, q) == p[1] < q[1] \/ (p[1] = q[1] /\ p[2] <= q[2])

\* p * k for a small k
LimbScale(p, k) == Norm(<<p[1] * k + ((p[2] * k) \div Limb), (p[2] * k) % Limb>>)

\* 255**4 = (254 * 256 + 1)^2, as a limb pair
Pow255_4 ==
    LET sq == 255 * 255
        a  == sq \div 256
        b  == sq % 256
    IN  Norm(<<a * a, 2 * a * b * 256 + b * b>>)

\* depth.view(np.uint8): the uint32 read back from its little-endian bytes
ViewUint32(bytes) == <<bytes[4] * 256 + bytes[3], bytes[2] * 256 + bytes[1]>>

\* ((rgb[..., 0].astype(np.uint32) + rgb[..., 1]).astype(np.uint32) / 2), stored
\* into a uint8 array: the float is truncated
HighByte(r, g) == (r + g) \div 2

ChannelSamples == {0, 1, 128, 251, 252, 253, 254, 255}
BlueSamples == {0, 5, 6, 255}
MaxDepthSamples == {1, 20}

InitDecodeIdle ==
    /\ rgb = <<0, 0, 0>>
    /\ MODEL_maxOUTPUT_depth = 20
    /\ depth_unit = <<>>
    /\ depth = NoObject
    /\ dpc = "idle"

InitDecodeInputs ==
    /\ rgb \in ChannelSamples \X ChannelSamples \X BlueSamples
    /\ MODEL_maxOUTPUT_depth \in MaxDepthSamples
    /\ depth_unit = <<>>
    /\ depth = NoObject
    /\ dpc = "alloc"

\* depth = np.zeros(..., dtype=np.uint32); depth_unit = depth.view(np.uint8)
AllocDepth ==
    /\ dpc = "alloc"
    /\ depth_unit' = <<0, 0, 0, 0>>
    /\ dpc' = "high"
    /\ UNCHANGED <<rgb, MODEL_maxOUTPUT_depth, depth, rebaseVars, mainVars>>

\* depth_unit[..., 3] = (r + g) / 2
StoreHigh ==
    /\ dpc = "high"
    /\ depth_unit' = [depth_unit EXCEPT ![4] = HighByte(rgb[1], rgb[2])]
    /\ dpc' = "low"
    /\ UNCHANGED <<rgb, MODEL_maxOUTPUT_depth, depth, rebaseVars, mainVars>>

\* depth_unit[..., 2] = rgb[..., 2]
StoreLow ==
    /\ dpc = "low"
    /\ depth_unit' = [depth_unit EXCEPT ![3] = rgb[3]]
    /\ dpc' = "scale"
    /\ UNCHANGED <<rgb, MODEL_maxOUTPUT_depth, depth, rebaseVars, mainVars>>

\* depth = depth.astype(np.float32)/((255**4)/MODEL_maxOUTPUT_depth)
\* kept exact: value / (255^4 / max_depth) = (value * max_depth) / 255^4
ScaleDepth ==
    /\ dpc = "scale"
    /\ depth' = [num |-> LimbScale(ViewUint32(depth_unit), MODEL_maxOUTPUT_depth),
                 den |-> Pow255_4]
    /\ dpc' = "decoded"
    /\ UNCHANGED <<rgb, MODEL_maxOUTPUT_depth, depth_unit, rebaseVars, mainVars>>

NextDecode == AllocDepth \/ StoreHigh \/ StoreLow \/ ScaleDepth

(***************************************************************************)
(* Transformation re-basing.  A transformation is a 4x4 matrix, a tuple of *)
(* rows.  The sampled inputs are rigid motions with integer entries, whose *)
(* inverses are exact.                                                     *)
(***************************************************************************)
MatIdx == 1..4

Identity == [i \in MatIdx |-> [j \in MatIdx |-> IF i = j THEN 1 ELSE 0]]

\* A @ B
MatMul(A, B) ==
    [i \in MatIdx |-> [j \in MatIdx |->
        A[i][1] * B[1][j] + A[i][2] * B[2][j] + A[i][3] * B[3][j] + A[i][4] * B[4][j]]]

\* a quarter-turn rotation about z (q quarter turns) followed by a translation
Rigid(q, tx, ty) ==
    LET c == CASE q = 0 -> 1 [] q = 1 -> 0 [] q = 2 -> -1 [] OTHER -> 0
        s == CASE q = 0 -> 0 [] q = 1 -> 1 [] q = 2 -> 0 [] OTHER -> -1
    IN  << <<c, -s, 0, tx>>, <<s, c, 0, ty>>, <<0, 0, 1, 0>>, <<0, 0, 0, 1>> >>

RigidSet == {Rigid(q, tx, ty) : q \in 0..3, tx \in -1..1, ty \in -1..1}

\* np.linalg.inv: the matrix X with M @ X = I
MatInv(M) == CHOOSE X \in RigidSet : MatMul(M, X) = Identity

TransformSamples == {Identity, Rigid(0, 1, 0), Rigid(1, 0, 0), Rigid(1, 1, -1), Rigid(2, 0, 1)}

MaxTransforms == 3

TransformLists == UNION {[1..n -> TransformSamples] : n \in 1..MaxTransforms}

InitRebaseIdle ==
    /\ transformations = NoValue
    /\ loaded_transformations = NoValue
    /\ transformation_lock_frame = 0
    /\ ref_frame_inv_trans = NoValue
    /\ rb_i = 0
    /\ rpc = "idle"

InitRebaseInputs ==
    /\ loaded_transformations \in TransformLists
    /\ transformations = loaded_transformations
    /\ transformation_lock_frame \in 0..(Len(loaded_transformations) - 1)
    /\ ref_frame_inv_trans = NoValue
    /\ rb_i = 0
    /\ rpc = "loaded"

RefFrameReread(ts, lock, ref) == MatInv(ts[lock + 1])

\* the right factor of transformation @ ref_frame_inv_trans: the inverse taken
\* once, before the loop, of the entry at the lock frame
RebaseFactor(ts, lock, ref) == ref

\* if args.transformation_lock_frame != 0
LockFrameGuard(lock) == lock # 0

\* lines 149-151
RebaseBegin ==
    /\ rpc = "loaded"
    /\ IF LockFrameGuard(transformation_lock_frame)
       THEN /\ ref_frame_inv_trans' = MatInv(transformations[transformation_lock_frame + 1])
            /\ rpc' = "loop"
       ELSE /\ ref_frame_inv_trans' = ref_frame_inv_trans
            /\ rpc' = "rebased"
    /\ UNCHANGED <<transformations, loaded_transformations, transformation_lock_frame,
                   rb_i, decodeVars, mainVars>>

\* one pass of: for i, transformation in enumerate(transformations):
\*                  transformations[i] = transformation @ ref_frame_inv_trans
RebaseStep ==
    /\ rpc = "loop"
    /\ rb_i < Len(transformations)
    /\ transformations' =
         [transformations EXCEPT ![rb_i + 1] =
            MatMul(transformations[rb_i + 1],
                   RebaseFactor(transformations, transformation_lock_frame,
                                ref_frame_inv_trans))]
    /\ rb_i' = rb_i + 1
    /\ UNCHANGED <<loaded_transformations, transformation_lock_frame,
                   ref_frame_inv_trans, rpc, decodeVars, mainVars>>

\* the loop runs out
RebaseEnd ==
    /\ rpc = "loop"
    /\ rb_i = Len(transformations)
    /\ rpc' = "rebased"
    /\ UNCHANGED <<transformations, loaded_transformations, transformation_lock_frame,
                   ref_frame_inv_trans, rb_i, decodeVars, mainVars>>

NextRebase == RebaseBegin \/ RebaseStep \/ RebaseEnd

(***************************************************************************)
(* The script.  Sizes are pairs <<width, height>>.  A translation along x  *)
(* is counted in micrometres, so that half a pupillary distance given in   *)
(* millimetres is an integer.  The colour video is not supplied; the       *)
(* candidate count of a frame and the size of a down-sampled cloud are     *)
(* results of calls outside the script and are chosen freely.              *)
(***************************************************************************)
Max(a, b) == IF a >= b THEN a ELSE b

\* cv2.vconcat / cv2.hconcat of buffers that all have the first one's size
VConcat(sizes) == <<sizes[1][1], sizes[1][2] * Len(sizes)>>

HConcat(sizes) == <<sizes[1][1] * Len(sizes), sizes[1][2]>>

\* out_width , out_height = 1920, 1920
Vr180Side == 1920

\* if max_fov >= 180
FovLimit == 180

\* render_fov = max(75, max_fov)
MinRenderFov == 75

\* if frame_n % 10 == 0
DecimationPeriod == 10

\* if args.touchly0: args.vr180 = True
Vr180Active(a) == a.touchly0 \/ a.vr180

\* max(args.xfov, args.yfov) raises TypeError when one of the two is None
MaxFovDefined(a) == a.xfov # NoValue /\ a.yfov # NoValue

\* lines 174-183
OutSize(a, w, h) ==
    IF a.touchly1 THEN <<w, h * 2>>
    ELSE IF a.touchly0 THEN <<w * 3, h>>
    ELSE <<w * 2, h>>

\* np.load(args.load_background), called without allow_pickle: two arrays of
\* different lengths make an object array, which np.load then refuses to load
LoadRefusesObjectArray(artifact) == artifact.points # artifact.colors

LoadWithPickle(artifact) == FALSE

LoadRaises(artifact) == LoadRefusesObjectArray(artifact)

\* o3d.geometry.PointCloud(), and np.asarray of its points
EmptyCloud == [n |-> 0, shift |-> 0, mem |-> "pcd"]

\* how far the script got before it left the start-up
StartupOutcome(a) ==
    CASE a.xfov = NoValue /\ a.yfov = NoValue -> "exit"
      [] a.vr180 /\ ~MaxFovDefined(a) -> "TypeError"
      [] a.vr180 /\ Max(a.xfov[1], a.yfov[1]) >= FovLimit -> "ValueError"
      [] a.mask_video /\ a.load_background # NoObject /\ LoadRaises(a.load_background)
            -> "LoadError"
      [] OTHER -> "ok"

\* -(args.pupillary_distance/1000)/2 and +(args.pupillary_distance/1000)/2
LeftShift(pd) == -((pd * 1000) \div 2)

RightShift(pd) == (pd * 1000) \div 2

\* lines 116-215
Startup ==
    /\ pc = "start"
    /\ LET a   == [args EXCEPT !.vr180 = Vr180Active(args)]
           res == StartupOutcome(a)
           w   == IF a.vr180 THEN Vr180Side ELSE raw_video.size[1]
           h   == IF a.vr180 THEN Vr180Side ELSE raw_video.size[2]
           opened == res \in {"LoadError", "ok"}
           bg  == opened /\ a.mask_video
       IN  /\ pc' = CASE res = "exit" -> "exit" [] res = "ok" -> "read" [] OTHER -> "error"
           /\ error' = IF res \in {"exit", "ok"} THEN None
                       ELSE IF res = "LoadError" THEN "ValueError" ELSE res
           /\ args' = IF res = "exit" THEN args ELSE a
           /\ frame_width' = IF res = "exit" THEN 0 ELSE raw_video.size[1]
           /\ frame_height' = IF res = "exit" THEN 0 ELSE raw_video.size[2]
           /\ out_width' = IF res = "exit" THEN 0 ELSE w
           /\ out_height' = IF res = "exit" THEN 0 ELSE h
           /\ render_fov' = IF opened /\ a.vr180
                            THEN <<Max(MinRenderFov, Max(a.xfov[1], a.yfov[1]))>> ELSE NoValue
           /\ render_cam_matrix' = IF opened THEN [width |-> w, height |-> h] ELSE NoObject
           /\ out_size' = IF opened THEN OutSize(a, w, h) ELSE NoValue
           /\ out' = IF opened THEN [size |-> OutSize(a, w, h), n |-> 0, last |-> NoValue]
                     ELSE NoObject
           /\ infill_mask_video' =
                IF opened /\ a.infill_mask
                THEN [size |-> OutSize(a, w, h), n |-> 0, last |-> NoValue] ELSE NoObject
           /\ bg_cloud' = IF bg THEN EmptyCloud ELSE NoObject
           /\ bg_points' =
                CASE bg /\ res = "ok" /\ a.load_background # NoObject
                        -> [n |-> a.load_background.points, shift |-> 0, mem |-> "array"]
                  [] bg -> EmptyCloud
                  [] OTHER -> NoObject
           /\ bg_point_colors' =
                CASE bg /\ res = "ok" /\ a.load_background # NoObject
                        -> [n |-> a.load_background.colors]
                  [] bg -> [n |-> 0]
                  [] OTHER -> NoObject
           /\ left_shift' = IF res = "ok" THEN LeftShift(a.pupillary_distance) ELSE 0
           /\ right_shift' = IF res = "ok" THEN RightShift(a.pupillary_distance) ELSE 0
    /\ UNCHANGED <<raw_video, frame_n, new_points, decimated, viewVars,
                   decodeVars, rebaseVars>>

\* if args.max_frames < frame_n and args.max_frames != -1: break
LimitReached(max_frames, n) == max_frames < n /\ max_frames # -1

\* lines 219-243: the loop head, the read and the decode of the frame (the pixel
\* decode itself is NextDecode); the buffers of the frame before are dropped
ReadFrame ==
    /\ pc = "read"
    /\ frame_n' = frame_n + 1
    /\ IF raw_video.pos < raw_video.frames
       THEN /\ raw_video' = [raw_video EXCEPT !.pos = @ + 1]
            /\ pc' = "frame"
       ELSE /\ raw_video' = raw_video
            /\ pc' = "release"
    /\ renders' = <<>>
    /\ out_image' = NoValue
    /\ out_mask_image' = NoValue
    /\ UNCHANGED <<args, error, setupVars, out, infill_mask_video, bgVars, mesh,
                   decodeVars, rebaseVars>>

\* if transformations is None and args.touchly1
IsFastPath == ~args.transformation_file /\ args.touchly1

FrameSize == <<frame_width, frame_height>>

\* depth_map_tools.render: buffers at the render camera's resolution
RenderSize == <<render_cam_matrix.width, render_cam_matrix.height>>

\* lines 246-250
FastPath ==
    /\ pc = "frame"
    /\ IsFastPath
    /\ out_image' = VConcat(<<FrameSize, FrameSize>>)
    /\ pc' = "write"
    /\ UNCHANGED <<args, raw_video, error, frame_n, setupVars, out, infill_mask_video,
                   bgVars, mesh, renders, out_mask_image, decodeVars, rebaseVars>>

\* depth_map_tools.get_mesh_from_depth_map: the mesh of this frame's depth map,
\* at the frame's own pose, whatever the previous mesh was left at
MeshFromDepthMap(last_mesh) == [shift |-> 0, mem |-> "mesh"]

\* lines 251-270
BuildMesh ==
    /\ pc = "frame"
    /\ ~IsFastPath
    /\ mesh' = MeshFromDepthMap(mesh)
    /\ pc' = IF args.mask_video THEN "accumulate" ELSE "gate"
    /\ UNCHANGED <<args, raw_video, error, frame_n, setupVars, out, infill_mask_video,
                   bgVars, renders, out_image, out_mask_image, decodeVars, rebaseVars>>

MaxNewPoints == 1

\* np.intersect1d(used_indices, bg_mask): the number of candidates of a frame
CandidateCounts == 0..MaxNewPoints

\* depth_map_tools.perspective_aware_down_sample: a cloud that is no larger,
\* and empty only if the cloud was
DownSampleSizes(n) == IF n = 0 THEN {0} ELSE 1..n

ConcatenateDropping(n, k) == n

\* np.concatenate((a, b), axis=0): the length of the result
Concatenate(n, k) == n + k

\* if frame_n % 10 == 0
DecimationDue(n) == n % DecimationPeriod = 0

\* copy.deepcopy(bg_cloud): a cloud on memory of its own
DeepCopy(cloud) == [cloud EXCEPT !.mem = "copy"]

\* depth_map_tools.pts_2_pcd: a new cloud holding a copy of the points
Pts2Pcd(points) == [n |-> points.n, shift |-> points.shift, mem |-> "pcd"]

\* np.asarray(bg_cloud.points): an array on the cloud's own memory
AsArray(cloud) == cloud

\* lines 272-302
Accumulate ==
    /\ pc = "accumulate"
    /\ \E k \in CandidateCounts :
         LET pts  == [n |-> Concatenate(bg_points.n, k), shift |-> bg_points.shift,
                      mem |-> "array"]
             cols == [n |-> Concatenate(bg_point_colors.n, k)]
             pcd  == Pts2Pcd(pts)
         IN  /\ new_points' = k
             /\ IF DecimationDue(frame_n)
                THEN \E m \in DownSampleSizes(pcd.n) :
                       LET ds == [n |-> m, shift |-> pcd.shift, mem |-> "downsampled"]
                       IN  /\ bg_points' = AsArray(ds)
                           /\ bg_point_colors' = [n |-> m]
                           /\ bg_cloud' = DeepCopy(ds)
                           /\ decimated' = decimated \cup {frame_n}
                ELSE /\ bg_points' = pts
                     /\ bg_point_colors' = cols
                     /\ bg_cloud' = pcd
                     /\ decimated' = decimated
    /\ pc' = "gate"
    /\ UNCHANGED <<args, raw_video, error, frame_n, setupVars, out, infill_mask_video,
                   viewVars, decodeVars, rebaseVars>>

\* lines 306-309
SaveBackgroundSkip ==
    /\ pc = "gate"
    /\ args.save_background
    /\ pc' = IF LimitReached(args.max_frames, frame_n) THEN "release" ELSE "read"
    /\ UNCHANGED <<args, raw_video, error, frame_n, setupVars, out, infill_mask_video,
                   bgVars, viewVars, decodeVars, rebaseVars>>

\* if args.mask_video is not None: mesh = bg_cloud
Scene == IF args.mask_video THEN bg_cloud ELSE mesh

\* obj after the object on memory mem was translated by dx
Moved(obj, mem, dx) ==
    IF obj # NoObject /\ obj.mem = mem THEN [obj EXCEPT !.shift = @ + dx] ELSE obj

\* img_mask = np.zeros((frame_height, frame_width)); img_mask[bg_mask] = 255
\* raises IndexError unless the boolean mask has the buffer's shape
MaskIndexRaises == infill_mask_video # NoObject /\ RenderSize # FrameSize

\* lines 313-337
RenderTouchly1 ==
    /\ pc = "gate"
    /\ ~args.save_background
    /\ args.touchly1
    /\ mesh' = Scene
    /\ renders' = Append(renders, [buf |-> "color_transformed", shift |-> Scene.shift])
    /\ out_image' = VConcat(<<RenderSize, RenderSize>>)
    /\ IF MaskIndexRaises
       THEN /\ pc' = "error"
            /\ error' = "IndexError"
            /\ UNCHANGED <<out_mask_image, infill_mask_video>>
       ELSE /\ pc' = "write"
            /\ error' = error
            /\ IF infill_mask_video # NoObject
               THEN /\ out_mask_image' = VConcat(<<FrameSize, FrameSize>>)
                    /\ infill_mask_video' =
                         [infill_mask_video EXCEPT !.n = @ + 1,
                                                   !.last = VConcat(<<FrameSize, FrameSize>>)]
               ELSE UNCHANGED <<out_mask_image, infill_mask_video>>
    /\ UNCHANGED <<args, raw_video, frame_n, setupVars, out, bgVars,
                   decodeVars, rebaseVars>>

LeftRevertMissing(ls) == 0

\* mesh.translate([left_shift, 0.0, 0.0]): the move back to the centre
LeftRevert(ls) == ls

\* lines 313-315 and 341-358: the left eye
RenderLeft ==
    /\ pc = "gate"
    /\ ~args.save_background
    /\ ~args.touchly1
    /\ LET at == Scene.shift + (-left_shift)
       IN  /\ mesh' = Moved(Scene, Scene.mem, -left_shift)
           /\ bg_cloud' = Moved(bg_cloud, Scene.mem, -left_shift)
           /\ bg_points' = Moved(bg_points, Scene.mem, -left_shift)
           /\ IF MaskIndexRaises
              THEN /\ renders' = Append(renders, [buf |-> "left_image", shift |-> at])
                   /\ pc' = "error"
                   /\ error' = "IndexError"
              ELSE /\ renders' =
                        IF args.touchly0
                        THEN renders \o << [buf |-> "left_image", shift |-> at],
                                           [buf |-> "left_depth", shift |-> at] >>
                        ELSE Append(renders, [buf |-> "left_image", shift |-> at])
                   /\ pc' = "revert"
                   /\ error' = error
    /\ UNCHANGED <<args, raw_video, frame_n, setupVars, out, infill_mask_video,
                   bg_point_colors, new_points, decimated, out_image, out_mask_image,
                   decodeVars, rebaseVars>>

\* line 361
RevertLeft ==
    /\ pc = "revert"
    /\ mesh' = Moved(mesh, mesh.mem, LeftRevert(left_shift))
    /\ bg_cloud' = Moved(bg_cloud, mesh.mem, LeftRevert(left_shift))
    /\ bg_points' = Moved(bg_points, mesh.mem, LeftRevert(left_shift))
    /\ pc' = "right"
    /\ UNCHANGED <<args, raw_video, error, frame_n, setupVars, out, infill_mask_video,
                   bg_point_colors, new_points, decimated, renders, out_image,
                   out_mask_image, decodeVars, rebaseVars>>

\* lines 363-370: the right eye
RenderRight ==
    /\ pc = "right"
    /\ mesh' = Moved(mesh, mesh.mem, -right_shift)
    /\ bg_cloud' = Moved(bg_cloud, mesh.mem, -right_shift)
    /\ bg_points' = Moved(bg_points, mesh.mem, -right_shift)
    /\ renders' = Append(renders, [buf |-> "right_image", shift |-> mesh.shift + (-right_shift)])
    /\ pc' = "assemble"
    /\ UNCHANGED <<args, raw_video, error, frame_n, setupVars, out, infill_mask_video,
                   bg_point_colors, new_points, decimated, out_image, out_mask_image,
                   decodeVars, rebaseVars>>

\* convert_to_equirectangular: an image of the input's size
EquirectSize(size) == size

\* lines 372-390
Assemble ==
    /\ pc = "assemble"
    /\ LET eye  == IF args.vr180 THEN EquirectSize(RenderSize) ELSE RenderSize
           imgs == IF args.touchly0 THEN <<eye, eye, eye>> ELSE <<eye, eye>>
           msks == IF args.touchly0 THEN <<FrameSize, FrameSize, FrameSize>>
                   ELSE <<FrameSize, FrameSize>>
       IN  /\ out_image' = HConcat(imgs)
           /\ IF infill_mask_video # NoObject
              THEN /\ out_mask_image' = HConcat(msks)
                   /\ infill_mask_video' =
                        [infill_mask_video EXCEPT !.n = @ + 1, !.last = HConcat(msks)]
              ELSE UNCHANGED <<out_mask_image, infill_mask_video>>
    /\ pc' = "write"
    /\ UNCHANGED <<args, raw_video, error, frame_n, setupVars, out, bgVars, mesh,
                   renders, decodeVars, rebaseVars>>

\* lines 393-396
WriteFrame ==
    /\ pc = "write"
    /\ out' = [out EXCEPT !.n = @ + 1, !.last = out_image]
    /\ pc' = IF LimitReached(args.max_frames, frame_n) THEN "release" ELSE "read"
    /\ UNCHANGED <<args, raw_video, error, frame_n, setupVars, infill_mask_video,
                   bgVars, viewVars, decodeVars, rebaseVars>>

\* lines 398-408: bg_points is a name only if a mask video was given
Release ==
    /\ pc = "release"
    /\ IF args.save_background /\ bg_points = NoObject
       THEN /\ pc' = "error"
            /\ error' = "NameError"
       ELSE /\ pc' = "done"
            /\ error' = error
    /\ UNCHANGED <<args, raw_video, frame_n, setupVars, out, infill_mask_video,
                   bgVars, viewVars, decodeVars, rebaseVars>>

Next ==
    \/ Startup
    \/ ReadFrame
    \/ FastPath
    \/ BuildMesh
    \/ Accumulate
    \/ SaveBackgroundSkip
    \/ RenderTouchly1
    \/ RenderLeft
    \/ RevertLeft
    \/ RenderRight
    \/ Assemble
    \/ WriteFrame
    \/ Release

(***************************************************************************)
(* Runs                                                                    *)
(***************************************************************************)
InputSize == <<640, 480>>

\* the arguments of a run
Arguments(T1, T0, VR, FOV, INF, BG, SAVE, TRF, MAXF, PD) ==
    { [touchly1 |-> t1, touchly0 |-> t0, vr180 |-> vr, xfov |-> f[1], yfov |-> f[2],
       infill_mask |-> inf, mask_video |-> b[1], load_background |-> b[2],
       save_background |-> sv, transformation_file |-> tr, max_frames |-> mf,
       pupillary_distance |-> pd] :
         t1 \in T1, t0 \in T0, vr \in VR, f \in FOV, inf \in INF, b \in BG,
         sv \in SAVE, tr \in TRF, mf \in MAXF, pd \in PD }

InitMainIdle ==
    /\ args = NoObject
    /\ raw_video = NoObject
    /\ pc = "idle"
    /\ error = None
    /\ frame_n = 0
    /\ frame_width = 0 /\ frame_height = 0
    /\ out_width = 0 /\ out_height = 0
    /\ render_fov = NoValue
    /\ render_cam_matrix = NoObject
    /\ out_size = NoValue
    /\ out = NoObject
    /\ infill_mask_video = NoObject
    /\ bg_points = NoObject /\ bg_point_colors = NoObject /\ bg_cloud = NoObject
    /\ new_points = 0
    /\ decimated = {}
    /\ left_shift = 0 /\ right_shift = 0
    /\ mesh = NoObject
    /\ renders = <<>>
    /\ out_image = NoValue
    /\ out_mask_image = NoValue

InitMain(argset, sizes, lengths) ==
    /\ args \in argset
    /\ raw_video \in {[size |-> s, frames |-> n, pos |-> 0] : s \in sizes, n \in lengths}
    /\ pc = "start"
    /\ error = None
    /\ frame_n = 0
    /\ frame_width = 0 /\ frame_height = 0
    /\ out_width = 0 /\ out_height = 0
    /\ render_fov = NoValue
    /\ render_cam_matrix = NoObject
    /\ out_size = NoValue
    /\ out = NoObject
    /\ infill_mask_video = NoObject
    /\ bg_points = NoObject /\ bg_point_colors = NoObject /\ bg_cloud = NoObject
    /\ new_points = 0
    /\ decimated = {}
    /\ left_shift = 0 /\ right_shift = 0
    /\ mesh = NoObject
    /\ renders = <<>>
    /\ out_image = NoValue
    /\ out_mask_image = NoValue

DefaultFov == {<< <<90>>, <<60>> >>}

FovPairs ==
    {<<NoValue, NoValue>>, << <<90>>, NoValue>>, << <<90>>, <<60>> >>,
     << <<180>>, <<60>> >>, << <<60>>, <<200>> >>}

DefaultPupillaryDistance == 63

PupillarySamples == {DefaultPupillaryDistance, 70}

MaxShortVideo == 2

\* every format, every field of view, short videos
Init ==
    /\ InitDecodeIdle
    /\ InitRebaseIdle
    /\ InitMain(Arguments(BOOLEAN, BOOLEAN, BOOLEAN, FovPairs, BOOLEAN,
                          {<<FALSE, NoObject>>, <<TRUE, NoObject>>}, BOOLEAN, BOOLEAN,
                          {-1, 1}, {DefaultPupillaryDistance}),
                {InputSize, <<Vr180Side, Vr180Side>>}, 1..MaxShortVideo)

Spec == Init /\ [][Next]_vars

MaxFrameLimit == 3

MaxLoopVideo == 5

\* every frame limit against every video length
InitLoop ==
    /\ InitDecodeIdle
    /\ InitRebaseIdle
    /\ InitMain(Arguments(BOOLEAN, BOOLEAN, {FALSE}, DefaultFov, {FALSE},
                          {<<FALSE, NoObject>>, <<TRUE, NoObject>>}, BOOLEAN, BOOLEAN,
                          {-1} \cup 1..MaxFrameLimit, {DefaultPupillaryDistance}),
                {InputSize}, 0..MaxLoopVideo)

SpecLoop == InitLoop /\ [][Next]_vars

LongVideo == 21

LoadedPoints == 2

\* the persisted background: none, a (2, N, 3) array, two arrays of different lengths
Artifacts ==
    {NoObject, [points |-> LoadedPoints, colors |-> LoadedPoints],
     [points |-> LoadedPoints, colors |-> LoadedPoints + 1]}

\* background accumulation over a long video
InitBackground ==
    /\ InitDecodeIdle
    /\ InitRebaseIdle
    /\ InitMain(Arguments(BOOLEAN, BOOLEAN, BOOLEAN, DefaultFov, {FALSE},
                          {FALSE, TRUE} \X Artifacts,
                          BOOLEAN, BOOLEAN, {-1}, PupillarySamples),
                {InputSize}, {LongVideo})

SpecBackground == InitBackground /\ [][Next]_vars

\* one pixel decoded
InitDecode == InitDecodeInputs /\ InitRebaseIdle /\ InitMainIdle

SpecDecode == InitDecode /\ [][NextDecode]_vars

\* one transformation list re-based
InitRebase == InitDecodeIdle /\ InitRebaseInputs /\ InitMainIdle

SpecRebase == InitRebase /\ [][NextRebase]_vars

(***************************************************************************)
(* Claims                                                                  *)
(***************************************************************************)

\* C1: every decoded depth lies in [0, max_depth], i.e. the reconstructed
\* 32-bit integer never exceeds 255^4.
DepthInRange ==
    dpc = "decoded" =>
        /\ LimbLeq(<<0, 0>>, depth.num)
        /\ LimbLeq(depth.num, LimbScale(depth.den, MODEL_maxOUTPUT_depth))

\* C2 as stated: with max_frames = N (N # -1) at most N frames are read and
\* processed and at most N output frames are written.
FrameLimitHonoured ==
    (pc \notin {"start", "exit"} /\ args.max_frames # -1) =>
        /\ raw_video.pos <= args.max_frames
        /\ out.n <= args.max_frames

\* C3 as stated: in a run with a mask stream, the down-sample has been called on
\* exactly the processed frames whose 1-indexed counter is a multiple of 10.
DecimationEveryTenth ==
    (pc = "read" /\ args.mask_video) =>
        decimated = {f \in 1..frame_n : f % 10 = 0}

\* C4: an update of K candidates on a frame with no decimation grows the points
\* and the colors by exactly K each; with a decimation the cloud is no larger
\* than it was before the down-sample; arrays of equal length stay of equal length.
AppendOnlyGrowth ==
    [][pc = "accumulate" =>
          /\ IF frame_n % 10 # 0
             THEN /\ bg_points'.n = bg_points.n + new_points'
                  /\ bg_point_colors'.n = bg_point_colors.n + new_points'
             ELSE /\ bg_points'.n <= bg_points.n + new_points'
                  /\ bg_point_colors'.n <= bg_point_colors.n + new_points'
          /\ bg_points.n = bg_point_colors.n => bg_points'.n = bg_point_colors'.n]_vars

AppendOnlyGrowthWitness ==
    /\ pc = "gate"
    /\ frame_n = 11
    /\ decimated = {10}
    /\ new_points = 1
    /\ bg_points.n = 3
    /\ bg_point_colors.n = 3
    /\ args.load_background # NoObject

\* C5 as stated: every frame handed to the output writer has the size the writer
\* was opened with and the size of the format's layout: W x 2H mono+depth,
\* 3W x H 3-in-1, 2W x H stereo, W x H being 1920 x 1920 with VR180 and the
\* input frame size without.
OutputLayout ==
    (out # NoObject /\ out.last # NoValue) =>
        LET W == IF args.vr180 THEN 1920 ELSE frame_width
            H == IF args.vr180 THEN 1920 ELSE frame_height
        IN  /\ out.last = out.size
            /\ out.last = (IF args.touchly1 THEN <<W, 2 * H>>
                           ELSE IF args.touchly0 THEN <<3 * W, H>>
                           ELSE <<2 * W, H>>)

\* C6 as stated: after re-basing, for every lock frame including 0, the entry
\* at the lock frame is the identity and every entry is T_i @ inv(T_lock) of
\* the loaded list.
RebasedAnyLockFrame ==
    rpc = "rebased" =>
        /\ transformations[transformation_lock_frame + 1] = Identity
        /\ \A i \in 1..Len(transformations) :
              MatMul(transformations[i],
                     loaded_transformations[transformation_lock_frame + 1])
                 = loaded_transformations[i]

\* C6 amended: for a lock frame other than 0 the entry at the lock frame is
\* the identity and every entry is T_i @ inv(T_lock) of the loaded list; for
\* lock frame 0 the list is left as loaded.
RebasedNonZeroLockFrame ==
    rpc = "rebased" =>
        IF transformation_lock_frame # 0
        THEN /\ transformations[transformation_lock_frame + 1] = Identity
             /\ \A i \in 1..Len(transformations) :
                   MatMul(transformations[i],
                          loaded_transformations[transformation_lock_frame + 1])
                      = loaded_transformations[i]
        ELSE transformations = loaded_transformations

RebasedWitness ==
    /\ rpc = "rebased"
    /\ transformation_lock_frame = 1
    /\ Len(transformations) = 3
    /\ loaded_transformations[2] # Identity
    /\ loaded_transformations[3] # loaded_transformations[2]
    /\ transformations[3] # loaded_transformations[3]

\* C7 as stated: a run asked for a field of view of 180 degrees or more, in x or
\* in y, ends in an error in the start-up, whatever the format: no frame is read
\* and no render is requested.
WideFovRejected ==
    (/\ pc # "start"
     /\ \/ (args.xfov # NoValue /\ args.xfov[1] >= 180)
        \/ (args.yfov # NoValue /\ args.yfov[1] >= 180)) =>
        /\ pc = "error"
        /\ raw_video.pos = 0
        /\ renders = <<>>

\* C8: a persisted background whose points and colors differ in length is never
\* the starting cloud; when it is loaded the run ends in an error before any
\* frame is read.
MismatchedBackgroundRejected ==
    (/\ pc # "start"
     /\ args.load_background # NoObject
     /\ args.load_background.points # args.load_background.colors) =>
        /\ args.mask_video => (pc = "error" /\ raw_video.pos = 0 /\ frame_n = 0)
        /\ bg_points # NoObject => bg_points.n = 0
        /\ bg_point_colors # NoObject => bg_point_colors.n = 0

MismatchedBackgroundWitness ==
    /\ pc = "error"
    /\ error = "ValueError"
    /\ args.mask_video
    /\ args.load_background # NoObject
    /\ args.load_background.points # args.load_background.colors
    /\ out # NoObject

EyeShiftsExact ==
    LET half == (args.pupillary_distance * 1000) \div 2
        L == [buf |-> "left_image", shift |-> half]
        D == [buf |-> "left_depth", shift |-> half]
        R == [buf |-> "right_image", shift |-> -half]
    IN  /\ pc = "gate" => Scene.shift = 0
        /\ pc = "revert" => renders = (IF args.touchly0 THEN <<L, D>> ELSE <<L>>)
        /\ pc = "right" => mesh.shift = 0
        /\ pc = "assemble" => renders = (IF args.touchly0 THEN <<L, D, R>> ELSE <<L, R>>)
        /\ bg_points # NoObject => bg_points.shift = 0

EyeShiftsWitness ==
    /\ pc = "assemble"
    /\ frame_n = 11
    /\ decimated = {10}
    /\ args.mask_video
    /\ args.touchly0
    /\ Len(renders) = 3
    /\ mesh.shift # 0
    /\ bg_points.n > 0

\* C11 as stated: with the mask stream requested, after every loop iteration as
\* many mask frames have been written as output frames, on the fast path, the
\* rendered paths and the save_background path alike.
MaskStreamInStep ==
    (pc \in {"read", "release", "done"} /\ infill_mask_video # NoObject) =>
        infill_mask_video.n = out.n

====
